---- MODULE Spec2Model ----
(***************************************************************************)
(* Model of the pqueue priority queue: the dual-index PriorityQueue of     *)
(* pqueue/src/lib.rs (scores: BTreeMap<i64, VecDeque<id>>, items:          *)
(* HashMap<id, i64>, stats counters), the PQueue handle that guards it     *)
(* with a Mutex, and the dispatch of pqueue_server/src/main.rs.            *)
(*                                                                         *)
(* Scores are i64 in the source.  The model keeps two's-complement         *)
(* arithmetic but on a narrow word, MinScore..MaxScore, so that the        *)
(* overflow of `new_score += current_score` is reachable.                  *)
(***************************************************************************)
EXTENDS Integers, Sequences, FiniteSets, TLC

\* ------------------------------------------------------------- bounds
\* Largest representable score (i64::MAX scaled down); the word is
\* MinScore..MaxScore with MinScore = -MaxScore - 1.
MaxScore == 1
\* Cap on the number of update calls in a behaviour (stats.updates).
MaxUpdates == 4

\* Largest number of tokens of a request line given to the parser.
MaxTokens == 3

\* Largest number of request lines a client sends on one connection.
MaxLines == 2

\* The item identifiers the clients use.
Ids == {"a", "b", "c"}

MinScore == -MaxScore - 1
Modulus == 2 * (MaxScore + 1)
Score == MinScore..MaxScore
\* Values a client may pass as the delta of an update: any score.
Deltas == Score

\* Option<T>: None is the empty sequence, Some(v) is <<v>>.
None == <<>>
Some(v) == <<v>>

\* Two's-complement wrap of an integer into the score word.
Wrap(n) == ((n - MinScore) % Modulus) + MinScore

InRange(n) == MinScore <= n /\ n <= MaxScore

\* The largest element of a non-empty set of scores.
MaxKey(S) == CHOOSE m \in S : \A x \in S : x <= m

\* A map without one key / with one key set (HashMap and BTreeMap).
MapRemove(m, k) == [x \in DOMAIN m \ {k} |-> m[x]]
MapInsert(m, k, v) == [x \in DOMAIN m \cup {k} |-> IF x = k THEN v ELSE m[x]]
EmptyMap == [x \in {} |-> 0]

\* ------------------------------------------------------------- state
VARIABLES
    scores,           \* PriorityQueue.scores: score -> sequence of ids
    items,            \* PriorityQueue.items: id -> score
    stats,            \* PriorityQueue.stats: [updates, items, pools]
    poisoned,         \* the Mutex is poisoned (a holder panicked)
    overflow_checks,  \* the build: TRUE panics on i64 overflow, FALSE wraps
    last,             \* the last call made through the handle and its result
    order,            \* history: ids in the order of their most recent update
    deltaSum,         \* history: id -> sum of the deltas since it was inserted
    overflowed,       \* history: ids whose score overflowed since inserted
    input,            \* the request line handed to the parser, and its make-up
    parsed,           \* Option<Command>: what the parser made of the line
    conn,             \* the connections: socket, handler task and client
    absq,             \* history: the queue as a map of scores in update order
    listener,         \* the accept loop of main: listening, panicked or exited
    lock              \* the connection whose handler holds the Mutex, 0 if none

\* The variables of the parser alone.
parserVars == <<input, parsed>>

\* The variables of the queue behind the handle, with their history.
queueVars == <<scores, items, stats, poisoned, overflow_checks, last, order,
               deltaSum, overflowed>>

\* The variables of the connections, with their history.
serverVars == <<conn, absq>>

\* The variables in front of the queue: parser and connections.
frontVars == <<input, parsed, conn, absq, listener, lock>>

\* The accept loop and the Mutex of the queue.
runtimeVars == <<listener, lock>>

vars == <<scores, items, stats, poisoned, overflow_checks, last, order,
          deltaSum, overflowed, input, parsed, conn, absq, listener, lock>>

\* The queue as one record, as the operations of PriorityQueue see it.
Queue == [scores |-> scores, items |-> items, stats |-> stats]

\* PQueue::new
NewQueue ==
    [scores |-> EmptyMap, items |-> EmptyMap,
     stats |-> [updates |-> 0, items |-> 0, pools |-> 0]]

\* ------------------------------------------------- PriorityQueue (lib.rs)

\* Mutant of retain_other: the retain keeps every item.
retain_all(pool, item) == pool

\* VecDeque::retain(|i| i != item)
retain_other(pool, item) == SelectSeq(pool, LAMBDA i : i # item)

\* Mutant of pools_after_removal: the decrement is forgotten.
pools_not_decremented(pools) == pools

\* The pool count after a pool was emptied and removed (pools -= 1).
pools_after_removal(pools) == pools - 1

\* Mutant of remove_item: the emptied pool is left in the map.
remove_item_keeps_pool(q, item, score) ==
    IF score \in DOMAIN q.scores
    THEN [q EXCEPT !.scores =
             MapInsert(q.scores, score, retain_other(q.scores[score], item))]
    ELSE q

\* PriorityQueue::remove_item
remove_item(q, item, score) ==
    IF score \in DOMAIN q.scores
    THEN LET retained == retain_other(q.scores[score], item)
         IN  IF retained = <<>>
             THEN [q EXCEPT !.scores = MapRemove(q.scores, score),
                            !.stats.pools = pools_after_removal(@)]
             ELSE [q EXCEPT !.scores = MapInsert(q.scores, score, retained)]
    ELSE q

\* Mutant of push_back: the item is pushed at the front.
push_front(pool, item) == <<item>> \o pool

\* VecDeque::push_back
push_back(pool, item) == Append(pool, item)

\* The tail of PriorityQueue::update: record the score, count a new pool,
\* push the item at the back of the pool.
place_item(q, item, new_score) ==
    LET q1 == [q EXCEPT !.items = MapInsert(q.items, item, new_score)]
        q2 == IF new_score \notin DOMAIN q1.scores
              THEN [q1 EXCEPT !.stats.pools = @ + 1]
              ELSE q1
        pool == IF new_score \in DOMAIN q2.scores
                THEN q2.scores[new_score] ELSE <<>>
    IN  [q2 EXCEPT !.scores = MapInsert(q2.scores, new_score, push_back(pool, item))]

\* Mutant of count_update: the increment is forgotten.
count_update_skipped(st) == st

\* self.stats.updates += 1
count_update(st) == [st EXCEPT !.updates = @ + 1]

\* Mutant of count_insert: the increment is forgotten.
count_insert_skipped(st) == st

\* self.stats.items += 1, on the insert branch only
count_insert(st) == [st EXCEPT !.items = @ + 1]

\* Mutant of add_score: the delta replaces the score.
set_score(delta, current_score) == delta

\* new_score += current_score, before the word is applied
add_score(delta, current_score) == delta + current_score

\* PriorityQueue::update.  Result: the queue it leaves, whether it
\* panicked (arithmetic overflow with overflow checks on), and the
\* returned pair (old_score, new_score).
update(q, item, delta, checks) ==
    LET q0 == [q EXCEPT !.stats = count_update(@)]
    IN  IF item \in DOMAIN q0.items
        THEN LET current_score == q0.items[item]
                 q1 == remove_item(q0, item, current_score)
                 sum == add_score(delta, current_score)
             IN  IF ~InRange(sum) /\ checks
                 THEN [q |-> q1, panicked |-> TRUE,
                       old |-> None, new |-> None]
                 ELSE [q |-> place_item(q1, item, Wrap(sum)),
                       panicked |-> FALSE,
                       old |-> Some(current_score), new |-> Some(Wrap(sum))]
        ELSE LET q1 == [q0 EXCEPT !.stats = count_insert(@)]
             IN  [q |-> place_item(q1, item, delta), panicked |-> FALSE,
                  old |-> None, new |-> Some(delta)]

\* Mutant of last_key: the iterator is read from the front.
first_key(m) == CHOOSE k \in DOMAIN m : \A x \in DOMAIN m : k <= x

\* BTreeMap iter().next_back(): the largest key of a non-empty map.
last_key(m) == MaxKey(DOMAIN m)

\* Mutant of peek: the pool is read from the back.
peek_back(q) ==
    IF DOMAIN q.scores = {}
    THEN None
    ELSE LET pool == q.scores[last_key(q.scores)]
         IN  IF pool = <<>> THEN None ELSE Some(pool[Len(pool)])

\* PriorityQueue::peek
peek(q) ==
    IF DOMAIN q.scores = {}
    THEN None
    ELSE LET pool == q.scores[last_key(q.scores)]
         IN  IF pool = <<>> THEN None ELSE Some(Head(pool))

\* Mutant of next: the popped id is left in the by-id map.
next_keeps_item(q) ==
    IF DOMAIN q.scores = {}
    THEN [q |-> q, ret |-> None]
    ELSE LET score == last_key(q.scores)
             pool == q.scores[score]
         IN  IF pool # <<>>
             THEN [q |-> IF Tail(pool) = <<>>
                         THEN [q EXCEPT !.scores = MapRemove(q.scores, score),
                                        !.stats.pools = @ - 1,
                                        !.stats.items = @ - 1]
                         ELSE [q EXCEPT !.scores =
                                   MapInsert(q.scores, score, Tail(pool)),
                                        !.stats.items = @ - 1],
                   ret |-> Some(Head(pool))]
             ELSE [q |-> [q EXCEPT !.scores = MapRemove(q.scores, score),
                                   !.stats.pools = @ - 1],
                   ret |-> None]

\* Mutant of next: the item is returned and left in the queue.
next_as_peek(q) == [q |-> q, ret |-> peek(q)]

\* PriorityQueue::next.  Result: the queue it leaves and the returned id.
next(q) ==
    IF DOMAIN q.scores = {}
    THEN [q |-> q, ret |-> None]
    ELSE LET score == last_key(q.scores)
             pool == q.scores[score]
         IN  IF pool # <<>>
             THEN LET item == Head(pool)
                      q1 == IF Tail(pool) = <<>>
                            THEN [q EXCEPT !.scores = MapRemove(q.scores, score),
                                           !.stats.pools = @ - 1]
                            ELSE [q EXCEPT !.scores =
                                      MapInsert(q.scores, score, Tail(pool))]
                  IN  [q |-> [q1 EXCEPT !.items = MapRemove(q1.items, item),
                                        !.stats.items = @ - 1],
                       ret |-> Some(item)]
             ELSE [q |-> [q EXCEPT !.scores = MapRemove(q.scores, score),
                                   !.stats.pools = @ - 1],
                   ret |-> None]

\* Mutant of score: a missing id reads as score 0.
score_or_zero(q, item) ==
    IF item \in DOMAIN q.items THEN Some(q.items[item]) ELSE Some(0)

\* PriorityQueue::score
score(q, item) ==
    IF item \in DOMAIN q.items THEN Some(q.items[item]) ELSE None

\* ---------------------------------------------- dispatch (server main.rs)

\* Response, and the Response process_command builds for each Command.
ResponseOk == [tag |-> "Ok"]
ResponseItem(s) == [tag |-> "Item", item |-> s]
ResponseScore(n) == [tag |-> "Score", score |-> n]
\* Mutant of ResponseStats: the counters are those of a new queue.
ResponseStats_new(s) == [tag |-> "Stats", stats |-> NewQueue.stats]
ResponseStats(s) == [tag |-> "Stats", stats |-> s]
\* Mutant of ResponseError: the error is reported as a success.
ResponseError_ok(msg) == [tag |-> "Ok"]
ResponseError(msg) == [tag |-> "Error", msg |-> msg]
ResponseHelp == [tag |-> "Help"]
\* The task panicked: no response is written.
NoResponse == [tag |-> "none"]

\* The messages of Command::Error the parser produces.
ErrorMessages == {"Invalid value for UPDATE", "Invalid command or arguments"}

\* Command::Update arm: the result of update is dropped.
update_response(r) == ResponseOk
\* Mutant of item_response: an empty queue is reported as an error.
item_response_error(ret) ==
    IF ret = None THEN ResponseError("-1") ELSE ResponseItem(ret[1])

\* Command::Next and Command::Peek arms
item_response(ret) ==
    IF ret = None THEN ResponseItem("-1") ELSE ResponseItem(ret[1])
\* Command::Score arm
score_response(ret) ==
    IF ret = None THEN ResponseScore(-1) ELSE ResponseScore(ret[1])

\* --------------------------------------------- text (server protocol.rs)

\* A string is a sequence of characters, a character a one-letter string.
CR == "\r"
LF == "\n"
Chars(str) == IF str = "-1" THEN <<"-", "1">> ELSE <<str>>

LowerCase == <<"a", "b", "c", "d", "e", "f", "g", "h", "i", "j", "k", "l", "m",
               "n", "o", "p", "q", "r", "s", "t", "u", "v", "w", "x", "y", "z">>
UpperCase == <<"A", "B", "C", "D", "E", "F", "G", "H", "I", "J", "K", "L", "M",
               "N", "O", "P", "Q", "R", "S", "T", "U", "V", "W", "X", "Y", "Z">>
DecimalDigits == <<"0", "1", "2", "3", "4", "5", "6", "7", "8", "9">>

\* u8::to_ascii_lowercase, on which eq_ignore_ascii_case compares
to_ascii_lowercase(ch) ==
    IF \E i \in 1..Len(UpperCase) : UpperCase[i] = ch
    THEN LowerCase[CHOOSE i \in 1..Len(UpperCase) : UpperCase[i] = ch]
    ELSE ch

\* Mutant of eq_ignore_ascii_case: the comparison is case-sensitive.
eq_exact(a, b) == a = b

\* str::eq_ignore_ascii_case
eq_ignore_ascii_case(a, b) ==
    /\ Len(a) = Len(b)
    /\ \A i \in 1..Len(a) : to_ascii_lowercase(a[i]) = to_ascii_lowercase(b[i])

\* char::is_whitespace, on the characters of the model
is_whitespace(ch) == ch \in {" ", "\t", "\n", "\r"}

RECURSIVE split_from(_, _, _, _)
\* The tokens of s from position i on; cur is the token being read and
\* acc the tokens read.
split_from(s, i, cur, acc) ==
    IF i > Len(s)
    THEN IF cur = <<>> THEN acc ELSE Append(acc, cur)
    ELSE IF is_whitespace(s[i])
         THEN split_from(s, i + 1, <<>>,
                         IF cur = <<>> THEN acc ELSE Append(acc, cur))
         ELSE split_from(s, i + 1, Append(cur, s[i]), acc)

\* str::split_whitespace().collect()
split_whitespace(s) == split_from(s, 1, <<>>, <<>>)

RECURSIVE digits_value(_)
\* The number a non-empty sequence of decimal digits writes.
digits_value(d) ==
    IF d = <<>> THEN 0
    ELSE 10 * digits_value(SubSeq(d, 1, Len(d) - 1))
         + (CHOOSE i \in 1..10 : DecimalDigits[i] = d[Len(d)]) - 1

\* str::parse::<i64>: an optional sign, then one or more decimal digits,
\* and a value of the score word; anything else is an error (None).
parse_i64(tok) ==
    LET signed == tok # <<>> /\ tok[1] \in {"+", "-"}
        d == IF signed THEN Tail(tok) ELSE tok
    IN  IF d = <<>> \/ \E i \in 1..Len(d) :
                          ~(\E k \in 1..10 : DecimalDigits[k] = d[i])
        THEN None
        ELSE LET v == IF signed /\ tok[1] = "-"
                      THEN -digits_value(d) ELSE digits_value(d)
             IN  IF InRange(v) THEN Some(v) ELSE None

\* The verbs, as the parser spells them.
UPDATE == <<"U", "P", "D", "A", "T", "E">>
NEXT == <<"N", "E", "X", "T">>
PEEK == <<"P", "E", "E", "K">>
SCORE == <<"S", "C", "O", "R", "E">>
INFO == <<"I", "N", "F", "O">>
HELP == <<"H", "E", "L", "P">>

\* enum Command
CommandUpdate(item_id, value) ==
    [tag |-> "Update", item_id |-> item_id, value |-> value]
CommandNext == [tag |-> "Next"]
CommandPeek == [tag |-> "Peek"]
CommandScore(item_id) == [tag |-> "Score", item_id |-> item_id]
CommandInfo == [tag |-> "Info"]
CommandError(msg) == [tag |-> "Error", msg |-> msg]
CommandHelp == [tag |-> "Help"]

\* impl From<&str> for Command: the match on the tokens, arm by arm.
command_from(s) ==
    LET parts == split_whitespace(s)
        n == Len(parts)
    IN  IF n = 3 /\ eq_ignore_ascii_case(parts[1], UPDATE)
        THEN LET val == parse_i64(parts[3])
             IN  IF val # None
                 THEN CommandUpdate(parts[2], val[1])
                 ELSE CommandError("Invalid value for UPDATE")
        ELSE IF n = 1 /\ eq_ignore_ascii_case(parts[1], NEXT) THEN CommandNext
        ELSE IF n = 1 /\ eq_ignore_ascii_case(parts[1], PEEK) THEN CommandPeek
        ELSE IF n = 2 /\ eq_ignore_ascii_case(parts[1], SCORE)
             THEN CommandScore(parts[2])
        ELSE IF n = 1 /\ eq_ignore_ascii_case(parts[1], INFO) THEN CommandInfo
        ELSE IF n = 1 /\ eq_ignore_ascii_case(parts[1], HELP) THEN CommandHelp
        ELSE CommandError("Invalid command or arguments")

RECURSIVE digits_of(_)
\* The decimal digits of a natural number.
digits_of(n) ==
    IF n < 10 THEN <<DecimalDigits[n + 1]>>
    ELSE Append(digits_of(n \div 10), DecimalDigits[(n % 10) + 1])

\* Display of an i64
i64_to_string(n) == IF n < 0 THEN <<"-">> \o digits_of(-n) ELSE digits_of(n)

\* impl fmt::Display for Response, for the one-line responses: the status
\* prefix, the payload, CR LF.  An error message is kept as one piece.
to_string(resp) ==
    IF resp.tag = "Ok" THEN <<"+", "O", "K", CR, LF>>
    ELSE IF resp.tag = "Score" THEN <<"+">> \o i64_to_string(resp.score) \o <<CR, LF>>
    ELSE IF resp.tag = "Item" THEN <<"+">> \o Chars(resp.item) \o <<CR, LF>>
    ELSE IF resp.tag = "Error" THEN <<"-", resp.msg, CR, LF>>
    ELSE IF resp.tag = "Stats"
         THEN <<"+", "INFO", CR, LF>>
              \o <<"+", "uptime:", "{uptime}", CR, LF>>
              \o <<"+", "version:", "{version}", CR, LF>>
              \o <<"+", "updates:">> \o i64_to_string(resp.stats.updates) \o <<CR, LF>>
              \o <<"+", "items:">> \o i64_to_string(resp.stats.items) \o <<CR, LF>>
              \o <<"+", "pools:">> \o i64_to_string(resp.stats.pools) \o <<CR, LF>>
    ELSE IF resp.tag = "Help" THEN <<"U", "S", "A", "G", "E", "{help}", CR, LF>>
    ELSE <<>>

\* ----------------------------------------------------- history records
NoCall ==
    [op |-> "none", id |-> "", delta |-> 0, old |-> None, new |-> None,
     ret |-> None, panicked |-> FALSE, resp |-> NoResponse]

Call(op, id, delta, old, new, ret, panicked, resp) ==
    [op |-> op, id |-> id, delta |-> delta, old |-> old, new |-> new,
     ret |-> ret, panicked |-> panicked, resp |-> resp]

\* A call on a poisoned Mutex: lock().unwrap() panics, nothing is touched.
PoisonedCall(op) ==
    /\ poisoned
    /\ last' = Call(op, "", 0, None, None, None, TRUE, NoResponse)
    /\ UNCHANGED <<scores, items, stats, poisoned, overflow_checks, order,
                   deltaSum, overflowed>>

\* No line is before the parser.
NoInput == [tokens |-> <<>>, style |-> "none", line |-> <<>>]

\* The connections the server has accepted.
Conns == {1, 2}

\* A connection: the handler task (pc, buffer, the command it is about to
\* process under the lock, the response it is about to write), the socket (wire: the bytes sent and not yet read; gone:
\* the client has closed its end) and the history (sent: the requests
\* sent, lines: the lines dispatched, out: the responses written).
Connection(pc) ==
    [pc |-> pc, wire |-> <<>>, gone |-> FALSE, buffer |-> <<>>,
     command |-> None, resp |-> <<>>, sent |-> <<>>, lines |-> 0,
     out |-> <<>>]

\* A connection that was never made.
NoConnection == Connection("none")

\* The queue as a map from id to score with the ids in the order of their
\* last update; dead once an operation panicked under the lock.
NewAbstract ==
    [score |-> EmptyMap, order |-> <<>>, updates |-> 0, dead |-> FALSE]

\* ------------------------------------------------------------- actions
Init ==
    /\ scores = NewQueue.scores
    /\ items = NewQueue.items
    /\ stats = NewQueue.stats
    /\ poisoned = FALSE
    /\ overflow_checks \in BOOLEAN
    /\ last = NoCall
    /\ order = <<>>
    /\ deltaSum = [i \in Ids |-> 0]
    /\ overflowed = {}
    /\ input = NoInput
    /\ parsed = None
    /\ conn = [c \in Conns |-> NoConnection]
    /\ absq = NewAbstract
    /\ listener = "listening"
    /\ lock = 0

\* Command::Update: PQueue::update under the lock, then Response::Ok
CmdUpdate(id, delta) ==
    /\ stats.updates < MaxUpdates
    /\ \/ PoisonedCall("update")
       \/ /\ ~poisoned
          /\ LET r == update(Queue, id, delta, overflow_checks)
             IN  /\ scores' = r.q.scores
                 /\ items' = r.q.items
                 /\ stats' = r.q.stats
                 /\ poisoned' = r.panicked
                 /\ last' = Call("update", id, delta, r.old, r.new, None,
                                 r.panicked,
                                 IF r.panicked THEN NoResponse
                                 ELSE update_response(r))
                 /\ IF r.panicked
                    THEN UNCHANGED <<order, deltaSum, overflowed>>
                    ELSE LET sum == IF id \in DOMAIN items
                                    THEN deltaSum[id] + delta ELSE delta
                             over == \/ id \in DOMAIN items /\ id \in overflowed
                                     \/ ~InRange(sum)
                         IN  /\ order' = Append(SelectSeq(order, LAMBDA i : i # id), id)
                             /\ overflowed' = IF over THEN overflowed \cup {id}
                                              ELSE overflowed \ {id}
                             /\ deltaSum' = [deltaSum EXCEPT ![id] =
                                               IF over THEN 0 ELSE sum]
                 /\ UNCHANGED overflow_checks

\* Command::Next: PQueue::next under the lock, then Response::Item
CmdNext ==
    \/ PoisonedCall("next")
    \/ /\ ~poisoned
       /\ LET r == next(Queue)
          IN  /\ scores' = r.q.scores
              /\ items' = r.q.items
              /\ stats' = r.q.stats
              /\ last' = Call("next", "", 0,
                              IF r.ret = None THEN None ELSE score(Queue, r.ret[1]),
                              None, r.ret, FALSE, item_response(r.ret))
              /\ order' = IF r.ret = None THEN order
                          ELSE SelectSeq(order, LAMBDA i : i # r.ret[1])
              /\ deltaSum' = IF r.ret = None THEN deltaSum
                             ELSE [deltaSum EXCEPT ![r.ret[1]] = 0]
              /\ overflowed' = IF r.ret = None THEN overflowed
                               ELSE overflowed \ {r.ret[1]}
              /\ UNCHANGED <<poisoned, overflow_checks>>

\* Command::Peek: PQueue::peek under the lock, then Response::Item
CmdPeek ==
    \/ PoisonedCall("peek")
    \/ /\ ~poisoned
       /\ LET ret == peek(Queue)
          IN  last' = Call("peek", "", 0, None, None, ret, FALSE, item_response(ret))
       /\ UNCHANGED <<scores, items, stats, poisoned, overflow_checks, order,
                      deltaSum, overflowed>>

\* Command::Score: PQueue::score under the lock, then Response::Score
CmdScore(id) ==
    \/ PoisonedCall("score")
    \/ /\ ~poisoned
       /\ LET ret == score(Queue, id)
          IN  last' = Call("score", id, 0, None, None, ret, FALSE, score_response(ret))
       /\ UNCHANGED <<scores, items, stats, poisoned, overflow_checks, order,
                      deltaSum, overflowed>>

\* Command::Info: PQueue::stats under the lock, then Response::Stats
CmdInfo ==
    \/ PoisonedCall("stats")
    \/ /\ ~poisoned
       /\ last' = Call("stats", "", 0, None, None, None, FALSE, ResponseStats(stats))
       /\ UNCHANGED <<scores, items, stats, poisoned, overflow_checks, order,
                      deltaSum, overflowed>>

\* Command::Error: a line the parser rejected; the queue is not touched
\* and the lock is not taken.
CmdError(msg) ==
    /\ last' = Call("error", "", 0, None, None, None, FALSE, ResponseError(msg))
    /\ UNCHANGED <<scores, items, stats, poisoned, overflow_checks, order,
                   deltaSum, overflowed>>

Next ==
    \/ \E id \in Ids, delta \in Deltas :
          CmdUpdate(id, delta) /\ UNCHANGED frontVars
    \/ CmdNext /\ UNCHANGED frontVars
    \/ CmdPeek /\ UNCHANGED frontVars
    \/ \E id \in Ids : CmdScore(id) /\ UNCHANGED frontVars
    \/ CmdInfo /\ UNCHANGED frontVars
    \/ \E msg \in ErrorMessages : CmdError(msg) /\ UNCHANGED frontVars

Spec == Init /\ [][Next]_vars

\* ------------------------------------------------------ the parser alone

\* The tokens request lines are made of: their characters, the verb they
\* spell whatever the case ("" for none) and the integer they write
\* (None for none).
Token(chars, verb, int) == [chars |-> chars, verb |-> verb, int |-> int]

Vocabulary ==
    << Token(UPDATE, "UPDATE", None),
       Token(<<"u", "P", "d", "A", "t", "e">>, "UPDATE", None),
       Token(NEXT, "NEXT", None),
       Token(<<"n", "e", "x", "t">>, "NEXT", None),
       Token(<<"p", "e", "e", "k">>, "PEEK", None),
       Token(<<"S", "c", "o", "r", "e">>, "SCORE", None),
       Token(INFO, "INFO", None),
       Token(<<"h", "e", "l", "p">>, "HELP", None),
       Token(<<"a">>, "", None),
       Token(<<"A">>, "", None),
       Token(<<"1">>, "", Some(1)),
       Token(<<"-", "1">>, "", Some(-1)),
       Token(<<"+", "1">>, "", Some(1)),
       Token(<<"2">>, "", Some(2)),
       Token(<<"9", "9">>, "", Some(99)),
       Token(<<"1", "x">>, "", None) >>

RECURSIVE join(_, _, _)
\* The characters of the tokens, sep between two of them.
join(tokens, i, sep) ==
    IF i > Len(tokens) THEN <<>>
    ELSE Vocabulary[tokens[i]].chars
         \o (IF i < Len(tokens) THEN sep ELSE <<>>)
         \o join(tokens, i + 1, sep)

\* A request line of the given tokens: "plain" puts one space between
\* two tokens, "padded" a run of white space between them and around.
LineOf(tokens, style) ==
    IF style = "plain" THEN join(tokens, 1, <<" ">>)
    ELSE <<"\t", " ">> \o join(tokens, 1, <<" ", "\n", "\t">>) \o <<" ", "\r">>

Inputs ==
    {[tokens |-> t, style |-> st, line |-> LineOf(t, st)] :
        t \in UNION {[1..n -> 1..Len(Vocabulary)] : n \in 0..MaxTokens},
        st \in {"plain", "padded"}}

InitParse ==
    /\ scores = NewQueue.scores
    /\ items = NewQueue.items
    /\ stats = NewQueue.stats
    /\ poisoned = FALSE
    /\ overflow_checks = FALSE
    /\ last = NoCall
    /\ order = <<>>
    /\ deltaSum = [i \in Ids |-> 0]
    /\ overflowed = {}
    /\ input \in Inputs
    /\ parsed = None
    /\ conn = [c \in Conns |-> NoConnection]
    /\ absq = NewAbstract
    /\ listener = "listening"
    /\ lock = 0

\* Command::from(command_string.as_ref())
Parse ==
    /\ parsed = None
    /\ parsed' = Some(command_from(input.line))
    /\ UNCHANGED <<input, queueVars, serverVars, runtimeVars>>

NextParse == Parse

SpecParse == InitParse /\ [][NextParse]_vars

\* -------------------------------------------- connections (server main.rs)

\* Command::Help: no queue operation, Response::Help
CmdHelp ==
    /\ last' = Call("help", "", 0, None, None, None, FALSE, ResponseHelp)
    /\ UNCHANGED <<scores, items, stats, poisoned, overflow_checks, order,
                   deltaSum, overflowed>>

\* item_id.into(): the String of the characters of a token.  The requests
\* of the clients name items by one letter.
item_string(item_id) == item_id[1]

\* Mutant of process_command: an UPDATE is answered and not applied.
process_command_unapplied(command) ==
    \/ /\ command.tag = "Update"
       /\ last' = Call("update", item_string(command.item_id), command.value,
                       None, None, None, FALSE, ResponseOk)
       /\ UNCHANGED <<scores, items, stats, poisoned, overflow_checks, order,
                      deltaSum, overflowed>>
    \/ command.tag = "Next" /\ CmdNext
    \/ command.tag = "Peek" /\ CmdPeek
    \/ command.tag = "Score" /\ CmdScore(item_string(command.item_id))
    \/ command.tag = "Info" /\ CmdInfo
    \/ command.tag = "Error" /\ CmdError(command.msg)
    \/ command.tag = "Help" /\ CmdHelp

\* process_command: the arm of the command
process_command(command) ==
    \/ command.tag = "Update"
          /\ CmdUpdate(item_string(command.item_id), command.value)
    \/ command.tag = "Next" /\ CmdNext
    \/ command.tag = "Peek" /\ CmdPeek
    \/ command.tag = "Score" /\ CmdScore(item_string(command.item_id))
    \/ command.tag = "Info" /\ CmdInfo
    \/ command.tag = "Error" /\ CmdError(command.msg)
    \/ command.tag = "Help" /\ CmdHelp

\* A byte that is not valid UTF-8 wherever it stands, and the replacement
\* character U+FFFD.
InvalidByte == "{FF}"
ReplacementChar == "{U+FFFD}"

\* String::from_utf8_lossy(&buffer)
from_utf8_lossy(buffer) ==
    [i \in 1..Len(buffer) |->
        IF buffer[i] = InvalidByte THEN ReplacementChar ELSE buffer[i]]

\* Mutant of ends_line: every LF ends a line.
ends_line_at_lf(byte, buffer) == byte = LF

\* char_buffer == [b'\n'] && buffer.last() == Some(&b'\r')
ends_line(byte, buffer) ==
    byte = LF /\ buffer # <<>> /\ buffer[Len(buffer)] = CR

\* buffer.pop()
pop(buffer) == SubSeq(buffer, 1, Len(buffer) - 1)

\* A request a client sends: its bytes and the command the protocol
\* gives it.
Request(bytes, command) == [bytes |-> bytes, command |-> command]

Requests ==
    << Request(UPDATE \o <<" ", "a", " ", "1", CR, LF>>,
               CommandUpdate(<<"a">>, 1)),
       Request(NEXT \o <<CR, LF>>, CommandNext),
       Request(INFO \o <<CR, LF>>, CommandInfo),
       Request(<<"?", CR, LF>>, CommandError("Invalid command or arguments")),
       Request(PEEK \o <<CR, LF>>, CommandPeek),
       Request(<<"s", "c", "o", "r", "e", " ", "a", CR, LF>>,
               CommandScore(<<"a">>)),
       Request(HELP \o <<CR, LF>>, CommandHelp),
       Request(UPDATE \o <<" ", "b", " ", "-", "1", CR, LF>>,
               CommandUpdate(<<"b">>, -1)),
       Request(UPDATE \o <<" ", "a", " ", "x", CR, LF>>,
               CommandError("Invalid value for UPDATE")),
       Request(<<LF, CR, LF>>, CommandError("Invalid command or arguments")),
       Request(<<"P", "E", LF, "E", "K", CR, LF>>,
               CommandError("Invalid command or arguments")),
       Request(<<LF, CR, "P", "E", "E", "K", CR, CR, LF>>, CommandPeek),
       Request(<<"N", "E", "X", "T", InvalidByte, CR, LF>>,
               CommandError("Invalid command or arguments")),
       Request(<<CR, LF>>, CommandError("Invalid command or arguments")),
       Request(NEXT \o <<" ", "a", CR, LF>>,
               CommandError("Invalid command or arguments")) >>

\* The requests of a client that has a connection to itself, and those
\* of the clients that share the server.
AloneRequests == 1..Len(Requests)
SharedRequests == {1, 2, 3, 4}

\* The bytes of a line cut short: the client gives up in the middle.
PartialLine == <<"N", "E", "X", "T", CR>>

\* The number of UPDATE requests sent so far.
UpdatesSent ==
    LET RECURSIVE count(_, _)
        count(seq, i) ==
            IF i > Len(seq) THEN 0
            ELSE (IF Requests[seq[i]].command.tag = "Update" THEN 1 ELSE 0)
                 + count(seq, i + 1)
    IN  count(conn[1].sent, 1) + count(conn[2].sent, 1)

\* The client's half of the socket is open.
ClientOpen(c) == conn[c].pc # "none" /\ ~conn[c].gone

\* The client writes a request line to the socket, once the server has
\* read the bytes of the one before.
ClientSend(c, r) ==
    /\ ClientOpen(c)
    /\ conn[c].wire = <<>>
    /\ Len(conn[c].sent) < MaxLines
    /\ Requests[r].command.tag = "Update" => UpdatesSent < MaxUpdates
    /\ conn' = [conn EXCEPT ![c].wire = Requests[r].bytes,
                            ![c].sent = Append(@, r)]
    /\ UNCHANGED <<queueVars, parserVars, absq, runtimeVars>>

\* The client writes the start of a line and closes the socket.
ClientAbort(c) ==
    /\ ClientOpen(c)
    /\ conn[c].wire = <<>>
    /\ conn' = [conn EXCEPT ![c].wire = PartialLine, ![c].gone = TRUE]
    /\ UNCHANGED <<queueVars, parserVars, absq, runtimeVars>>

\* The client closes the socket.
ClientClose(c) ==
    /\ ClientOpen(c)
    /\ conn' = [conn EXCEPT ![c].gone = TRUE]
    /\ UNCHANGED <<queueVars, parserVars, absq, runtimeVars>>

\* The command applied to the map of scores: the response the protocol
\* gives and the map after it.
AbstractApply(a, command, checks) ==
    LET top == MaxKey({a.score[i] : i \in DOMAIN a.score})
        head == SelectSeq(a.order, LAMBDA i : a.score[i] = top)[1]
        item == IF DOMAIN a.score = {} THEN "-1" ELSE head
        queued == command.tag \in {"Update", "Next", "Peek", "Score", "Info"}
    IN  IF queued /\ a.dead THEN [a |-> a, resp |-> NoResponse]
        ELSE IF command.tag = "Update"
        THEN LET id == item_string(command.item_id)
                 sum == IF id \in DOMAIN a.score
                        THEN a.score[id] + command.value ELSE command.value
             IN  IF checks /\ ~InRange(sum)
                 THEN [a |-> [a EXCEPT !.dead = TRUE], resp |-> NoResponse]
                 ELSE [a |-> [score |-> MapInsert(a.score, id, Wrap(sum)),
                              order |-> Append(SelectSeq(a.order,
                                                  LAMBDA i : i # id), id),
                              updates |-> a.updates + 1,
                              dead |-> FALSE],
                       resp |-> ResponseOk]
        ELSE IF command.tag = "Next"
        THEN [a |-> IF DOMAIN a.score = {} THEN a
                    ELSE [a EXCEPT !.score = MapRemove(@, head),
                                   !.order = SelectSeq(@, LAMBDA i : i # head)],
              resp |-> ResponseItem(item)]
        ELSE IF command.tag = "Peek"
        THEN [a |-> a, resp |-> ResponseItem(item)]
        ELSE IF command.tag = "Score"
        THEN [a |-> a,
              resp |-> LET id == item_string(command.item_id)
                       IN  ResponseScore(IF id \in DOMAIN a.score
                                         THEN a.score[id] ELSE -1)]
        ELSE IF command.tag = "Info"
        THEN [a |-> a,
              resp |-> ResponseStats(
                  [updates |-> a.updates,
                   items |-> Cardinality(DOMAIN a.score),
                   pools |-> Cardinality({a.score[i] : i \in DOMAIN a.score})])]
        ELSE IF command.tag = "Help" THEN [a |-> a, resp |-> ResponseHelp]
        ELSE [a |-> a, resp |-> ResponseError(command.msg)]

\* Mutant of dispatched: the handler goes back to reading and leaves the
\* response to be written later.
dispatched_unwritten(rec, line, panicked, resp) ==
    [rec EXCEPT !.wire = Tail(@), !.buffer = <<>>, !.lines = @ + 1,
                !.pc = IF panicked THEN "panicked" ELSE "read",
                !.resp = IF panicked THEN <<>> ELSE resp]

\* The handler after process_command: about to write resp, or gone with
\* the panic of the task.
dispatched(rec, line, panicked, resp) ==
    [rec EXCEPT !.wire = Tail(@), !.buffer = line, !.lines = @ + 1,
                !.pc = IF panicked THEN "panicked" ELSE "write",
                !.resp = IF panicked THEN <<>> ELSE resp]

\* read_exact returned Ok: one turn of the loop of handle_connection up
\* to the next await.  At the end of a line the command is parsed and
\* processed and the response formatted.
ReadByte(c) ==
    /\ conn[c].pc = "read"
    /\ conn[c].wire # <<>>
    /\ LET byte == Head(conn[c].wire)
       IN  IF ends_line(byte, conn[c].buffer)
           THEN LET line == pop(conn[c].buffer)
                    command == command_from(from_utf8_lossy(line))
                IN  /\ process_command(command)
                    /\ conn' = [conn EXCEPT ![c] =
                                  dispatched(@, line, last'.panicked,
                                             to_string(last'.resp))]
                    /\ absq' = AbstractApply(absq, command, overflow_checks).a
           ELSE /\ conn' = [conn EXCEPT ![c].wire = Tail(@),
                                        ![c].buffer = Append(@, byte)]
                /\ UNCHANGED <<queueVars, absq>>
    /\ UNCHANGED <<parserVars, runtimeVars>>

\* read_exact returned Err: the client has closed and nothing is left to
\* read; the handler returns.
ReadFail(c) ==
    /\ conn[c].pc = "read"
    /\ conn[c].wire = <<>>
    /\ conn[c].gone
    /\ conn' = [conn EXCEPT ![c].pc = "closed"]
    /\ UNCHANGED <<queueVars, parserVars, absq, runtimeVars>>

\* write_all returned Ok: buffer.clear() and back to reading.
Write(c) ==
    /\ conn[c].pc = "write"
    /\ conn' = [conn EXCEPT ![c].pc = "read",
                            ![c].out = Append(@, conn[c].resp),
                            ![c].resp = <<>>,
                            ![c].buffer = <<>>]
    /\ UNCHANGED <<queueVars, parserVars, absq, runtimeVars>>

\* write_all returned Err, the client being gone: the handler returns.
WriteFail(c) ==
    /\ conn[c].pc = "write"
    /\ conn[c].gone
    /\ conn' = [conn EXCEPT ![c].pc = "closed", ![c].resp = <<>>]
    /\ UNCHANGED <<queueVars, parserVars, absq, runtimeVars>>

\* One client, one connection.
InitConn ==
    /\ scores = NewQueue.scores
    /\ items = NewQueue.items
    /\ stats = NewQueue.stats
    /\ poisoned = FALSE
    /\ overflow_checks \in BOOLEAN
    /\ last = NoCall
    /\ order = <<>>
    /\ deltaSum = [i \in Ids |-> 0]
    /\ overflowed = {}
    /\ input = NoInput
    /\ parsed = None
    /\ conn = [c \in Conns |-> IF c = 1 THEN Connection("read") ELSE NoConnection]
    /\ absq = NewAbstract
    /\ listener = "listening"
    /\ lock = 0

NextConn ==
    \/ \E r \in AloneRequests : ClientSend(1, r)
    \/ ClientAbort(1)
    \/ ClientClose(1)
    \/ ReadByte(1)
    \/ ReadFail(1)
    \/ Write(1)
    \/ WriteFail(1)

SpecConn == InitConn /\ [][NextConn]_vars

\* Two clients, each with its connection, on the one queue.
InitServer ==
    /\ scores = NewQueue.scores
    /\ items = NewQueue.items
    /\ stats = NewQueue.stats
    /\ poisoned = FALSE
    /\ overflow_checks \in BOOLEAN
    /\ last = NoCall
    /\ order = <<>>
    /\ deltaSum = [i \in Ids |-> 0]
    /\ overflowed = {}
    /\ input = NoInput
    /\ parsed = None
    /\ conn = [c \in Conns |-> Connection("read")]
    /\ absq = NewAbstract
    /\ listener = "listening"
    /\ lock = 0

NextServer ==
    \/ \E c \in Conns, r \in SharedRequests : ClientSend(c, r)
    \/ \E c \in Conns : ClientClose(c)
    \/ \E c \in Conns : ReadByte(c)
    \/ \E c \in Conns : ReadFail(c)
    \/ \E c \in Conns : Write(c)
    \/ \E c \in Conns : WriteFail(c)

SpecServer == InitServer /\ [][NextServer]_vars

\* ------------------------------------------------- the Mutex of the queue

\* The requests of the clients when the steps of the lock are told apart:
\* every method of PQueue takes and drops the guard alike, and the update
\* is the one that can panic under it.
LockRequests == {1}

\* The handler inside lock(): the line is read and parsed, the guard not
\* yet got.
awaiting_lock(rec, line, command) ==
    [rec EXCEPT !.wire = Tail(@), !.buffer = line, !.pc = "lock",
                !.command = Some(command)]

\* The handler after the method of PQueue: about to write resp, or gone
\* with the panic of the task.
operated(rec, panicked, resp) ==
    [rec EXCEPT !.lines = @ + 1,
                !.command = None,
                !.pc = IF panicked THEN "panicked" ELSE "write",
                !.resp = IF panicked THEN <<>> ELSE resp]

\* The command the handler of c has parsed and passes to process_command.
command_of(c) == conn[c].command[1]

\* Mutant of guard_dropped: the guard outlives the method.
guard_kept(holder) == holder

\* The MutexGuard goes out of scope at the end of the method of PQueue,
\* and in the unwinding of a panic.
guard_dropped(holder) == 0

\* read_exact returned Ok: the turn of the loop up to self.queue.lock().
\* Command::Error and Command::Help take no lock and are processed here.
ReadTurn(c) ==
    /\ conn[c].pc = "read"
    /\ conn[c].wire # <<>>
    /\ LET byte == Head(conn[c].wire)
           line == pop(conn[c].buffer)
           command == command_from(from_utf8_lossy(line))
       IN  IF ~ends_line(byte, conn[c].buffer)
           THEN /\ conn' = [conn EXCEPT ![c].wire = Tail(@),
                                        ![c].buffer = Append(@, byte)]
                /\ UNCHANGED queueVars
           ELSE IF command.tag \in {"Error", "Help"}
           THEN /\ process_command(command)
                /\ conn' = [conn EXCEPT ![c] =
                              dispatched(@, line, FALSE, to_string(last'.resp))]
           ELSE /\ conn' = [conn EXCEPT ![c] = awaiting_lock(@, line, command)]
                /\ UNCHANGED queueVars
    /\ UNCHANGED <<parserVars, absq, runtimeVars>>

\* self.queue.lock().unwrap(): the guard once the Mutex is free, or the
\* panic on a poisoned Mutex.
Lock(c) ==
    /\ conn[c].pc = "lock"
    /\ lock = 0
    /\ IF poisoned
       THEN /\ process_command(command_of(c))
            /\ conn' = [conn EXCEPT ![c] = operated(@, TRUE, <<>>)]
            /\ UNCHANGED lock
       ELSE /\ lock' = c
            /\ conn' = [conn EXCEPT ![c].pc = "held"]
            /\ UNCHANGED queueVars
    /\ UNCHANGED <<parserVars, absq, listener>>

\* The operation on the PriorityQueue under the guard, the drop of the
\* guard, and result.to_string().
Operate(c) ==
    /\ conn[c].pc = "held"
    /\ lock = c
    /\ process_command(command_of(c))
    /\ lock' = guard_dropped(lock)
    /\ conn' = [conn EXCEPT ![c] =
                  operated(@, last'.panicked, to_string(last'.resp))]
    /\ absq' = AbstractApply(absq, command_of(c), overflow_checks).a
    /\ UNCHANGED <<parserVars, listener>>

NextLock ==
    \/ \E c \in Conns, r \in LockRequests : ClientSend(c, r)
    \/ \E c \in Conns : ClientClose(c)
    \/ \E c \in Conns : ReadTurn(c)
    \/ \E c \in Conns : Lock(c)
    \/ \E c \in Conns : Operate(c)
    \/ \E c \in Conns : ReadFail(c)
    \/ \E c \in Conns : Write(c)
    \/ \E c \in Conns : WriteFail(c)

SpecLock == InitServer /\ [][NextLock]_vars

\* The threads of the runtime run a handler that is not waiting for I/O:
\* one inside lock() gets the guard once the Mutex stays free, one under
\* the guard goes on.  Nothing is assumed of clients and sockets.
FairLock ==
    \A c \in Conns : WF_vars(Lock(c)) /\ WF_vars(Operate(c))

SpecLockFair == SpecLock /\ FairLock

\* ------------------------------------------------ the accept loop of main

\* The requests of the clients while connections are being accepted.
AcceptRequests == {2, 4}

\* listener.accept().await returned Ok: the handler of the connection is
\* spawned.
Accept(c) ==
    /\ listener = "listening"
    /\ conn[c].pc = "none"
    /\ conn' = [conn EXCEPT ![c] = Connection("read")]
    /\ UNCHANGED <<queueVars, parserVars, absq, runtimeVars>>

\* listener.accept().await returned Err: unwrap() panics in main.
AcceptFail ==
    /\ listener = "listening"
    /\ listener' = "panicked"
    /\ UNCHANGED <<queueVars, parserVars, conn, absq, lock>>

\* The panic unwinds out of the runtime's block_on: the runtime is dropped
\* with every spawned task and the process ends.
Exit ==
    /\ listener = "panicked"
    /\ listener' = "exited"
    /\ conn' = [c \in Conns |->
                  IF conn[c].pc \in {"read", "write"}
                  THEN [conn[c] EXCEPT !.pc = "aborted"] ELSE conn[c]]
    /\ UNCHANGED <<queueVars, parserVars, absq, lock>>

\* The server bound and listening, no connection made yet.
InitAccept ==
    /\ scores = NewQueue.scores
    /\ items = NewQueue.items
    /\ stats = NewQueue.stats
    /\ poisoned = FALSE
    /\ overflow_checks \in BOOLEAN
    /\ last = NoCall
    /\ order = <<>>
    /\ deltaSum = [i \in Ids |-> 0]
    /\ overflowed = {}
    /\ input = NoInput
    /\ parsed = None
    /\ conn = [c \in Conns |-> NoConnection]
    /\ absq = NewAbstract
    /\ listener = "listening"
    /\ lock = 0

NextAccept ==
    \/ \E c \in Conns : Accept(c)
    \/ AcceptFail
    \/ Exit
    \/ \E c \in Conns, r \in AcceptRequests : ClientSend(c, r)
    \/ \E c \in Conns : ClientClose(c)
    \/ \E c \in Conns : ReadByte(c)
    \/ \E c \in Conns : ReadFail(c)
    \/ \E c \in Conns : Write(c)
    \/ \E c \in Conns : WriteFail(c)

SpecAccept == InitAccept /\ [][NextAccept]_vars

\* ------------------------------------------------------------ properties

\* A state the handle can observe: lock() succeeds.  Once the Mutex is
\* poisoned every method of PQueue panics in lock().unwrap(), and the
\* PriorityQueue behind it is private, so no caller ever sees it again.
Observable == ~poisoned

\* The steps in which a call through the handle returned to its caller.
Returned(op) == last'.op = op /\ ~last'.panicked

\* Number of positions of a pool holding the id.
Occurrences(pool, id) == Cardinality({k \in 1..Len(pool) : pool[k] = id})

RECURSIVE SumLen(_, _)
\* Sum of the lengths of the pools at the scores of S.
SumLen(m, S) ==
    IF S = {} THEN 0
    ELSE LET s == CHOOSE x \in S : TRUE
         IN  Len(m[s]) + SumLen(m, S \ {s})

\* The update call of the step, read off the step itself.
UpdateStep(id, delta) ==
    /\ ~poisoned
    /\ last'.op = "update" /\ last'.id = id /\ last'.delta = delta

\* An update whose sum leaves the score word.
Overflows(id, delta) ==
    id \in DOMAIN items /\ ~InRange(items[id] + delta)

\* C1: in every observable state the two indexes agree: each id of the
\* by-id map occurs exactly once across all pools, in the pool at its
\* by-id score, and every id stored in a pool is a key of the by-id map.
C1_IndexesAgree ==
    Observable =>
        /\ \A id \in DOMAIN items :
              /\ items[id] \in DOMAIN scores
              /\ Occurrences(scores[items[id]], id) = 1
              /\ \A s \in DOMAIN scores \ {items[id]} :
                    Occurrences(scores[s], id) = 0
        /\ \A s \in DOMAIN scores :
              \A k \in 1..Len(scores[s]) : scores[s][k] \in DOMAIN items

\* C1 witness: after three inserts, an update that re-scored an id and a
\* next, two ids share one pool.
C1_Witness ==
    /\ Observable
    /\ last.op = "next" /\ last.ret # None
    /\ \E s \in DOMAIN scores : Len(scores[s]) = 2
    /\ stats.updates = MaxUpdates

\* C2 (as claimed): an update of an existing id whose sum overflows is
\* rejected atomically: maps and counters unchanged, and the caller gets
\* the error "Invalid value for UPDATE".
C2_OverflowRejected ==
    [][\A id \in Ids, delta \in Deltas :
          (UpdateStep(id, delta) /\ Overflows(id, delta)) =>
              /\ scores' = scores
              /\ items' = items
              /\ stats' = stats
              /\ last'.resp = ResponseError("Invalid value for UPDATE")]_vars

\* C7: in every observable state the items counter equals the number of
\* keys of the by-id map, which equals the sum of the pool lengths.
C7_ItemsCounter ==
    Observable =>
        /\ stats.items = Cardinality(DOMAIN items)
        /\ Cardinality(DOMAIN items) = SumLen(scores, DOMAIN scores)

\* C7 witness: the counter went up and down: four updates, one of them a
\* re-score, then a next, leave one item.
C7_Witness ==
    /\ Observable
    /\ last.op = "next" /\ last.ret # None
    /\ stats.updates = MaxUpdates
    /\ stats.items = 1

\* The ids placed at score s, in the order of their most recent update.
PlacedAt(s) == SelectSeq(order, LAMBDA i : i \in DOMAIN items /\ items[i] = s)

\* The highest score of the by-id map.
TopScore == MaxKey({items[i] : i \in DOMAIN items})

C4_ZeroDeltaKeepsPosition ==
    [][\A id \in Ids :
          (UpdateStep(id, 0) /\ id \in DOMAIN items) => scores' = scores]_vars

\* C5: on a non-empty queue next returns the head of the pool at the
\* maximum score, no id left has a strictly higher score, the id leaves
\* the pool and the by-id map, an emptied pool is deleted and the counters
\* follow; on an empty queue next returns none and changes nothing.
C5_NextPopsTop ==
    [][(~poisoned /\ last'.op = "next") =>
          IF DOMAIN scores = {}
          THEN /\ last'.ret = None /\ ~last'.panicked
               /\ UNCHANGED <<scores, items, stats>>
          ELSE LET top == MaxKey(DOMAIN scores)
                   id == Head(scores[top])
                   emptied == Len(scores[top]) = 1
               IN  /\ last'.ret = Some(id) /\ ~last'.panicked
                   /\ items[id] = top
                   /\ \A j \in DOMAIN items' : items'[j] <= items[id]
                   /\ items' = MapRemove(items, id)
                   /\ scores' = IF emptied THEN MapRemove(scores, top)
                                ELSE MapInsert(scores, top, Tail(scores[top]))
                   /\ stats' = [stats EXCEPT
                                  !.items = @ - 1,
                                  !.pools = IF emptied THEN @ - 1 ELSE @]]_vars

\* C5 witness: next returned "a" and deleted its pool, which it emptied,
\* while another id remains in a lower pool.
C5_Witness ==
    /\ Observable
    /\ last.op = "next" /\ last.ret = Some("a")
    /\ last.old[1] \notin DOMAIN scores
    /\ DOMAIN items # {}

\* C6: update on an absent id sets its score to delta and returns
\* (none, delta); on an existing id with score cur, and a sum inside the
\* score word, it sets the score to cur + delta and returns
\* (cur, cur + delta).  Hence the score of an id that has not overflowed
\* since it was inserted is the sum of the deltas of its updates.
C6_UpdateAdds ==
    [][/\ \A id \in Ids, delta \in Deltas :
             (UpdateStep(id, delta) /\ ~Overflows(id, delta)) =>
                 /\ ~last'.panicked
                 /\ IF id \notin DOMAIN items
                    THEN /\ last'.old = None
                         /\ last'.new = Some(delta)
                         /\ score(Queue', id) = Some(delta)
                    ELSE /\ last'.old = Some(items[id])
                         /\ last'.new = Some(items[id] + delta)
                         /\ score(Queue', id) = Some(items[id] + delta)
       /\ Observable' =>
             \A id \in DOMAIN items' \ overflowed' :
                 items'[id] = deltaSum'[id]]_vars

\* C6 witness: the third update of one id returned (cur, cur + delta) with
\* a delta that is not 0, and its score is the sum of its deltas.
C6_Witness ==
    /\ Observable
    /\ last.op = "update" /\ last.old # None /\ last.delta # 0
    /\ last.new = Some(last.old[1] + last.delta)
    /\ last.id \notin overflowed
    /\ items[last.id] = deltaSum[last.id]
    /\ stats.updates = 3 /\ stats.items = 1

\* What a step does to the pools: whether it empties one, and whether it
\* creates one at a score that has none once the id left its old pool.
EmptiesPool ==
    \/ /\ last'.op = "update" /\ ~poisoned
       /\ last'.id \in DOMAIN items
       /\ scores[items[last'.id]] = <<last'.id>>
    \/ /\ last'.op = "next" /\ ~poisoned
       /\ DOMAIN scores # {}
       /\ Len(scores[MaxKey(DOMAIN scores)]) = 1

CreatesPool ==
    /\ Returned("update")
    /\ \/ last'.new[1] \notin DOMAIN scores
       \/ /\ last'.old = last'.new
          /\ scores[last'.new[1]] = <<last'.id>>

\* C8: the pools counter equals the number of score keys, every pool is
\* non-empty, and a step changes the counter by one up exactly when an
\* update creates a pool and by one down exactly when update or next
\* empties one.
C8_PoolsCounter ==
    [][/\ stats'.pools = Cardinality(DOMAIN scores')
       /\ \A s \in DOMAIN scores' : scores'[s] # <<>>
       /\ stats'.pools - stats.pools =
              (IF CreatesPool THEN 1 ELSE 0) - (IF EmptiesPool THEN 1 ELSE 0)]_vars

\* C8 witness: an update moved the only id of one pool into a pool that
\* already had an id: one pool fewer, none created.
C8_Witness ==
    /\ Observable
    /\ last.op = "update" /\ last.old # None /\ last.old # last.new
    /\ last.old[1] \notin DOMAIN scores
    /\ Len(scores[last.new[1]]) = 2
    /\ stats.pools = 1

\* C9: the updates counter never decreases, goes up by exactly one in
\* every update that is accepted (insert or re-score), and is left alone
\* by an update the parser rejected and by next, peek, score and stats.
C9_UpdatesCounter ==
    [][/\ stats'.updates >= stats.updates
       /\ Returned("update") => stats'.updates = stats.updates + 1
       /\ last'.op \in {"error", "next", "peek", "score", "stats"} =>
              stats'.updates = stats.updates]_vars

\* C9 witness: every update was counted, inserts and re-scores alike: the
\* last of the counted updates re-scored the only item of the queue.
C9_Witness ==
    /\ Observable
    /\ last.op = "update" /\ last.old # None
    /\ stats.updates = MaxUpdates
    /\ stats.items = 1

\* C10: peek changes nothing, a next that follows a peek returns the id
\* the peek returned (none on an empty queue), a peek that follows a peek
\* returns the same id, and in any state next returns what peek answers
\* in that state.
C10_PeekMatchesNext ==
    [][/\ (~poisoned /\ last'.op = "peek") =>
              /\ ~last'.panicked
              /\ UNCHANGED <<scores, items, stats>>
       /\ (~poisoned /\ last.op = "peek" /\ last'.op \in {"next", "peek"}) =>
              last'.ret = last.ret
       /\ (~poisoned /\ last'.op = "next") => last'.ret = peek(Queue)
       /\ (~poisoned /\ last'.op = "peek") =>
              last'.ret = IF DOMAIN items = {} THEN None
                          ELSE Some(Head(PlacedAt(TopScore)))]_vars

\* C10 witness: peek answered "b", the head of a top pool of two ids,
\* with a third id in a lower pool.
C10_Witness ==
    /\ Observable
    /\ last.op = "peek" /\ last.ret = Some("b")
    /\ scores[items["b"]] = <<"b", "a">>
    /\ "c" \in DOMAIN items /\ items["c"] < items["b"]

\* C18: an id that was never passed to update has no score and is never
\* returned: before the first update every score is absent, only an update
\* of an id makes its score present, and next and peek return only ids
\* that have a score.
C18_NeverUpdatedAbsent ==
    [][/\ stats.updates = 0 => \A id \in Ids : score(Queue, id) = None
       /\ \A id \in Ids :
             (score(Queue, id) = None /\ score(Queue', id) # None) =>
                 (~poisoned /\ last'.op = "update" /\ last'.id = id)
       /\ (~poisoned /\ last'.op \in {"next", "peek"} /\ last'.ret # None) =>
              /\ last'.ret[1] \in DOMAIN items
              /\ score(Queue, last'.ret[1]) # None]_vars

\* C18 witness: two updates inserted "a" and "b"; the score of "c", never
\* updated, was asked and is absent.
C18_Witness ==
    /\ Observable
    /\ stats.updates = 2 /\ DOMAIN items = {"a", "b"}
    /\ last.op = "score" /\ last.id = "c" /\ last.ret = None

\* C19: every pool of the by-score map is non-empty, so the pool next
\* finds at the maximum score is never empty, and next (and peek) return
\* an id whenever the by-id map is non-empty.
C19_PoolsNonEmpty ==
    /\ \A s \in DOMAIN scores : scores[s] # <<>>
    /\ (Observable /\ DOMAIN items # {}) =>
           /\ DOMAIN scores # {}
           /\ next(Queue).ret # None
           /\ peek(Queue) # None

\* C19 witness: an update moved the only id of the top pool to a lower
\* score: the emptied top pool is gone and two pools remain.
C19_Witness ==
    /\ Observable
    /\ last.op = "update" /\ last.old # None
    /\ last.new[1] < last.old[1]
    /\ \A s \in DOMAIN scores : s < last.old[1]
    /\ stats.pools = 2

\* C20: an id returned by next has no score afterwards and is in no pool;
\* its score stays absent until an update of that id; and that update
\* treats it as new: it returns (none, delta) and stores delta, whatever
\* score the id had when it was removed.
C20_RemovedIsGone ==
    [][/\ (~poisoned /\ last'.op = "next" /\ last'.ret # None) =>
              /\ score(Queue', last'.ret[1]) = None
              /\ \A s \in DOMAIN scores' :
                    Occurrences(scores'[s], last'.ret[1]) = 0
       /\ \A id \in Ids :
             (score(Queue, id) = None /\ score(Queue', id) # None) =>
                 (~poisoned /\ last'.op = "update" /\ last'.id = id)
       /\ \A id \in Ids, delta \in Deltas :
             (UpdateStep(id, delta) /\ last.op = "next" /\ last.ret = Some(id)) =>
                 /\ last'.old = None
                 /\ last'.new = Some(delta)
                 /\ score(Queue', id) = Some(delta)]_vars

\* C20 witness: next removed "a", which had a score other than 0; its
\* score is absent now while "b" is still queued.
C20_Witness ==
    /\ Observable
    /\ last.op = "next" /\ last.ret = Some("a")
    /\ last.old # Some(0)
    /\ score(Queue, "a") = None
    /\ "b" \in DOMAIN items

\* The command the table of the protocol gives for a line of tokens.
TableCommand(tokens) ==
    LET n == Len(tokens)
        verb == IF n = 0 THEN "" ELSE Vocabulary[tokens[1]].verb
    IN  IF verb = "UPDATE" /\ n = 3
        THEN LET int == Vocabulary[tokens[3]].int
             IN  IF int # None /\ InRange(int[1])
                 THEN CommandUpdate(Vocabulary[tokens[2]].chars, int[1])
                 ELSE CommandError("Invalid value for UPDATE")
        ELSE IF verb = "NEXT" /\ n = 1 THEN CommandNext
        ELSE IF verb = "PEEK" /\ n = 1 THEN CommandPeek
        ELSE IF verb = "SCORE" /\ n = 2
             THEN CommandScore(Vocabulary[tokens[2]].chars)
        ELSE IF verb = "INFO" /\ n = 1 THEN CommandInfo
        ELSE IF verb = "HELP" /\ n = 1 THEN CommandHelp
        ELSE CommandError("Invalid command or arguments")

\* C17: the parser maps a line to the command of the table: the verb
\* whatever its case and the exact number of tokens decide, an unknown
\* verb or a wrong count gives "Invalid command or arguments", a
\* three-token UPDATE whose value is no int64 gives "Invalid value for
\* UPDATE", and identifiers keep their case.
C17_ParserTable ==
    parsed # None => parsed[1] = TableCommand(input.tokens)

\* C17 witness: "uPdAtE A +1", padded with white space, parsed as the
\* update of "A" (not "a") by 1.
C17_Witness ==
    /\ parsed = Some(CommandUpdate(<<"A">>, 1))
    /\ input.style = "padded"
    /\ Vocabulary[input.tokens[1]].chars # UPDATE
    /\ Vocabulary[input.tokens[3]].chars = <<"+", "1">>

\* C16: NEXT and PEEK on an empty queue are answered by the item "-1",
\* written "+-1", and SCORE of an id that is not queued by the score -1,
\* written "+-1" too; none is an error line and none changes the queue.
C16_Sentinels ==
    [][/\ (~poisoned /\ last'.op \in {"next", "peek"} /\ DOMAIN items = {}) =>
              /\ last'.resp = ResponseItem("-1")
              /\ to_string(last'.resp) = <<"+", "-", "1", CR, LF>>
              /\ UNCHANGED <<scores, items, stats>>
       /\ \A id \in Ids :
             (~poisoned /\ last'.op = "score" /\ last'.id = id
                 /\ id \notin DOMAIN items) =>
                 /\ last'.resp = ResponseScore(-1)
                 /\ to_string(last'.resp) = <<"+", "-", "1", CR, LF>>
                 /\ UNCHANGED <<scores, items, stats>>]_vars

\* C16 witness: after an update and two next, the second next found the
\* queue empty and was answered by the item "-1".
C16_Witness ==
    /\ Observable
    /\ last.op = "next" /\ last.resp = ResponseItem("-1")
    /\ to_string(last.resp)[1] = "+"
    /\ stats.updates = 1 /\ stats.items = 0

\* The handler of c completes a request line in this step.
Dispatches(c) == conn'[c].lines = conn[c].lines + 1

\* The handler of c reads a byte in this step.
ReadsByte(c) == Len(conn'[c].wire) = Len(conn[c].wire) - 1

\* The command of the request whose line the handler of c completes.
Dispatched(c) == Requests[conn[c].sent[conn[c].lines + 1]].command

\* C11: the connections work on one queue and the index operations are
\* linearizable: each command takes effect at the one step that completes
\* its line, in the order its connection sent it, and its response is the
\* one the queue as a map of scores in update order gives at that point;
\* the counters of an INFO response are those of the indexes at that point.
C11_Linearizable ==
    [][\A c \in Conns : Dispatches(c) =>
          LET e == AbstractApply(absq, Dispatched(c), overflow_checks)
          IN  /\ conn'[c].resp = to_string(e.resp)
              /\ (conn'[c].pc = "panicked") = (e.resp = NoResponse)
              /\ absq' = e.a
              /\ \A d \in Conns \ {c} : conn'[d] = conn[d]
              /\ last'.resp.tag = "Stats" =>
                    /\ last'.resp.stats.items = Cardinality(DOMAIN items)
                    /\ last'.resp.stats.pools = Cardinality(DOMAIN scores)
                    /\ last'.resp.stats.updates = absq.updates]_vars

\* C11 witness: the second connection sent NEXT alone and was answered
\* "+a", the id the first connection had put; the first then asked INFO
\* and was told of one update and no item.
C11_Witness ==
    /\ conn[2].sent = <<2>>
    /\ conn[2].out = <<to_string(ResponseItem("a"))>>
    /\ conn[1].sent = <<1, 3>>
    /\ Len(conn[1].out) = 2
    /\ conn[1].out[2] =
          to_string(ResponseStats([updates |-> 1, items |-> 0, pools |-> 0]))

\* C12: no error crosses connections: a valid command of a connection,
\* other than an update whose own sum overflows, gets its response
\* whatever the other connections did.
C12_NoErrorAcrossConnections ==
    [][\A c \in Conns :
          (/\ Dispatches(c)
           /\ Dispatched(c).tag # "Error"
           /\ ~(/\ Dispatched(c).tag = "Update"
                /\ item_string(Dispatched(c).item_id) \in DOMAIN absq.score
                /\ ~InRange(absq.score[item_string(Dispatched(c).item_id)]
                            + Dispatched(c).value)))
          => conn'[c].pc = "write"]_vars

\* C13: a malformed line is answered by one error response, which starts
\* with "-", the queue and its counters are as before, and the handler
\* goes on to write the response and back to reading with an empty
\* buffer, the connection open.
C13_MalformedLine ==
    [][\A c \in Conns :
          /\ (Dispatches(c) /\ Dispatched(c).tag = "Error") =>
                /\ UNCHANGED <<scores, items, stats, poisoned>>
                /\ conn'[c].pc = "write"
                /\ conn'[c].resp = <<"-", Dispatched(c).msg, CR, LF>>
          /\ (conn[c].pc = "write" /\ conn[c].resp[1] = "-"
                 /\ conn'[c].pc # "write") =>
                \/ /\ conn'[c].pc = "read"
                   /\ conn'[c].out = Append(conn[c].out, conn[c].resp)
                   /\ conn'[c].buffer = <<>>
                \/ conn[c].gone /\ conn'[c].pc = "closed"]_vars

\* C13 witness: the empty line was answered by an error and the UPDATE
\* sent after it by +OK, and the id is queued.
C13_Witness ==
    /\ conn[1].sent = <<14, 1>>
    /\ conn[1].out = <<to_string(ResponseError("Invalid command or arguments")),
                       to_string(ResponseOk)>>
    /\ conn[1].pc = "read"
    /\ "a" \in DOMAIN items

\* The first piece of the response to a command and, where the command
\* fixes it, the whole response.
Answers(text, command) ==
    /\ command.tag = "Error" => text = <<"-", command.msg, CR, LF>>
    /\ command.tag = "Update" => text = <<"+", "O", "K", CR, LF>>
    /\ command.tag = "Help" => text[1] = "U"
    /\ command.tag = "Info" => text[1] = "+" /\ text[2] = "INFO"
    /\ command.tag \in {"Next", "Peek", "Score"} =>
          text[1] = "+" /\ text[2] # "INFO" /\ text[2] # "O"

\* C14: a connection's commands are serialized: a byte is read only when
\* every line completed before has its response written; a completed line
\* has one response, written in one step before anything else is read,
\* unless the handler ends; and the k-th response answers the k-th line.
C14_Serialized ==
    [][\A c \in Conns :
          /\ ReadsByte(c) => Len(conn[c].out) = conn[c].lines
          /\ Dispatches(c) =>
                /\ conn'[c].pc \in {"write", "panicked"}
                /\ conn'[c].pc = "write" => conn'[c].resp # <<>>
          /\ conn'[c].out # conn[c].out =>
                /\ conn'[c].out = Append(conn[c].out, conn[c].resp)
                /\ Len(conn'[c].out) = conn[c].lines
                /\ conn'[c].lines = conn[c].lines
          /\ Len(conn'[c].out) <= conn'[c].lines
          /\ conn'[c].lines <= Len(conn'[c].out) + 1
          /\ conn'[c].lines = Len(conn'[c].out) + 1 =>
                conn'[c].pc \in {"write", "panicked", "closed"}
          /\ \A k \in 1..Len(conn'[c].out) :
                Answers(conn'[c].out[k], Requests[conn'[c].sent[k]].command)]_vars

\* C14 witness: the second line is on the wire, unread, while the handler
\* is about to write the response to the first.
C14_Witness ==
    /\ conn[1].pc = "write"
    /\ conn[1].lines = 1 /\ conn[1].out = <<>>
    /\ Len(conn[1].sent) = 2
    /\ conn[1].wire = Requests[conn[1].sent[2]].bytes

\* C15: a line ends only at a LF read when the last byte of the buffer is
\* a CR, and the line is the buffer without that CR; any other byte, a
\* lone LF or CR too, is appended to the buffer; the buffer is empty once
\* the response is written, and holds no CR LF while a line is read.
C15_Framer ==
    [][\A c \in Conns :
          /\ ReadsByte(c) =>
                LET byte == Head(conn[c].wire)
                    buffer == conn[c].buffer
                IN  IF byte = LF /\ buffer # <<>> /\ buffer[Len(buffer)] = CR
                    THEN /\ Dispatches(c)
                         /\ conn'[c].buffer = SubSeq(buffer, 1, Len(buffer) - 1)
                    ELSE /\ ~Dispatches(c)
                         /\ conn'[c].pc = "read"
                         /\ conn'[c].buffer = buffer \o <<byte>>
          /\ (conn[c].pc = "write" /\ conn'[c].pc = "read") =>
                conn'[c].buffer = <<>>
          /\ (conn'[c].pc = "read" /\ Len(conn'[c].sent) > conn'[c].lines) =>
                conn'[c].buffer \o conn'[c].wire =
                    Requests[conn'[c].sent[Len(conn'[c].sent)]].bytes
          /\ \A i \in 1..(Len(conn'[c].buffer) - 1) :
                ~(conn'[c].buffer[i] = CR /\ conn'[c].buffer[i + 1] = LF)]_vars

\* C15 witness: the line LF CR PEEK CR, ended by CR LF, was taken whole,
\* its lone LF and CRs kept, and answered as PEEK.
C15_Witness ==
    /\ conn[1].pc = "write"
    /\ conn[1].buffer = <<LF, CR, "P", "E", "E", "K", CR>>
    /\ conn[1].resp = <<"+", "-", "1", CR, LF>>

\* C21: the Mutex is held only by a handler inside a method of PQueue,
\* never by one waiting to read or to write or whose client has left it
\* there, and a handler waiting for the Mutex gets past lock(), whatever
\* the other connections and their clients do.
C21_LockNotHeldAcrossIO ==
    /\ [](\A c \in Conns : (lock = c) = (conn[c].pc = "held"))
    /\ \A c \in Conns : (lock = c) ~> (lock = 0)
    /\ \A c \in Conns :
          (conn[c].pc = "lock") ~> (conn[c].pc \in {"write", "panicked"})

\* C21 witness: the handler of connection 1 waits in lock() while that
\* of connection 2 holds the Mutex, the client of connection 2 gone.
C21_Witness ==
    /\ lock = 2 /\ conn[2].gone
    /\ conn[1].pc = "lock"

\* C22: a failure to accept one connection does not end the accept loop:
\* the listener goes on listening, so that later connections are
\* accepted, and no connection being served is cut off.
C22_AcceptLoopSurvives ==
    [][/\ (listener = "listening" /\ \E c \in Conns : conn[c].pc = "read")
             => listener' = "listening"
       /\ \A c \in Conns :
             conn[c].pc \in {"read", "write"} => conn'[c].pc # "aborted"]_vars

\* The NEXT responses that carry id, written or about to be, and the
\* UPDATE commands of id dispatched, over all connections.
HandedOut(id) ==
    LET count(c) ==
            Cardinality({k \in 1..Len(conn[c].out) :
                /\ Requests[conn[c].sent[k]].command.tag = "Next"
                /\ conn[c].out[k] = to_string(ResponseItem(id))})
            + (IF /\ conn[c].pc = "write"
                  /\ Requests[conn[c].sent[conn[c].lines]].command.tag = "Next"
                  /\ conn[c].resp = to_string(ResponseItem(id))
               THEN 1 ELSE 0)
    IN  count(1) + count(2)

Inserted(id) ==
    LET count(c) ==
            Cardinality({k \in 1..conn[c].lines :
                /\ Requests[conn[c].sent[k]].command.tag = "Update"
                /\ item_string(Requests[conn[c].sent[k]].command.item_id) = id})
    IN  count(1) + count(2)

\* C23: an insertion of an id is handed out by NEXT at most once: a NEXT
\* response carries an id only if an UPDATE put it in the queue since it
\* was last handed out, on whatever connection, and the id is then out
\* again; so the NEXT responses with an id never outnumber its UPDATEs.
C23_NextHandsOutOnce ==
    /\ [](\A id \in Ids : HandedOut(id) <= Inserted(id))
    /\ [][\A c \in Conns :
             (/\ Dispatches(c)
              /\ Dispatched(c).tag = "Next"
              /\ conn'[c].pc = "write"
              /\ conn'[c].resp # to_string(ResponseItem("-1")))
             => \E id \in Ids :
                   /\ conn'[c].resp = to_string(ResponseItem(id))
                   /\ id \in DOMAIN absq.score
                   /\ id \notin DOMAIN absq'.score
                   /\ id \notin DOMAIN items']_vars

\* C23 witness: connection 2 was answered "+a" by both its NEXT, with the
\* second UPDATE of connection 1 between them.
C23_Witness ==
    /\ conn[1].sent = <<1, 1>> /\ conn[1].lines = 2
    /\ conn[2].sent = <<2, 2>>
    /\ conn[2].out = <<to_string(ResponseItem("a")), to_string(ResponseItem("a"))>>

\* C24: the effect of a command is in the queue when the handler turns to
\* write the response, and stays: when the write fails the handler ends
\* and the queue is as every command dispatched left it, delivered or not.
C24_EffectKept ==
    [][\A c \in Conns :
          /\ (Dispatches(c) /\ ~poisoned') =>
                /\ items' = absq'.score
                /\ Dispatched(c).tag = "Update" =>
                      /\ item_string(Dispatched(c).item_id) \in DOMAIN items'
                      /\ stats'.updates = stats.updates + 1
          /\ (conn[c].pc = "write" /\ conn'[c].pc = "closed") =>
                /\ conn[c].gone
                /\ conn'[c].out = conn[c].out
                /\ UNCHANGED <<scores, items, stats, poisoned>>
                /\ ~poisoned => items' = absq'.score]_vars

\* C24 witness: the UPDATE was answered, the NEXT popped the id and its
\* response could not be written: the handler has ended, the id is out.
C24_Witness ==
    /\ conn[1].pc = "closed"
    /\ conn[1].sent = <<1, 2>> /\ conn[1].lines = 2
    /\ Len(conn[1].out) = 1
    /\ "a" \notin DOMAIN items
    /\ stats.updates = 1 /\ stats.items = 0

====
